---- MODULE Spec2Model ----
(***************************************************************************)
(* Model of the gutenberg_pipeline ingestion path.                         *)
(*                                                                         *)
(*   Spec         reconcile (update_or_create_book) calls issued one after *)
(*                the other on one persistence session.                    *)
(*   SpecCallers  several callers of get_or_create_authors, each with its  *)
(*                own session, whose lookups and creates interleave.       *)
(*   SpecRun      one ingestion run: main() gathers one store_book_to_db   *)
(*                task per descriptor on a single event loop.              *)
(*   SpecDownload download_rdf_file's resume loop.                         *)
(*                                                                         *)
(* The Book row carries the columns repositories.create_book writes.       *)
(***************************************************************************)
EXTENDS Integers, Sequences, FiniteSets, TLC

VARIABLES
    db,        \* the committed rows: [authors, categories, books]
    pre,       \* db as it was when the last reconcile call began
    last,      \* the last reconcile call: its record and what it returned
    first,     \* the first call of the session, kept until the second returns
    ncalls,    \* reconcile calls made so far: 0, 1, 2, or 3 for more
    family,    \* the family of records this session draws from
    callers,   \* per concurrent caller of get_or_create_authors: where it is
    tasks,     \* per descriptor of a run: the state of its store_book_to_db task
    sem,       \* the run's asyncio.Semaphore: free permits and waiting tasks
    run,       \* the state of main()
    dl,        \* download_rdf_file: its locals, the file and the exchange
    fn         \* a call of extract_metadata or extract_book_content

storeVars == <<db, pre, last, first, ncalls, family>>
runVars == <<tasks, sem, run>>
vars == <<db, pre, last, first, ncalls, family, callers, tasks, sem, run, dl, fn>>

----------------------------------------------------------------------------
(* Python values with the type Python reports for them. *)

None == [t |-> "NoneType", v |-> ""]
Str(s) == [t |-> "str", v |-> s]
Date(s) == [t |-> "date", v |-> s]
List(q) == [t |-> "list", v |-> q]
InstrumentedList(q) == [t |-> "InstrumentedList", v |-> q]

NoId == 0

RECURSIVE SortedSeq(_)
SortedSeq(S) ==
    IF S = {} THEN <<>>
    ELSE LET m == CHOOSE x \in S : \A y \in S : x <= y
         IN <<m>> \o SortedSeq(S \ {m})

Range(q) == {q[i] : i \in 1..Len(q)}

----------------------------------------------------------------------------
(* Input domain: the metadata records handed to reconcile. *)

MaxAuthors == 1
MaxCategories == 1

AuthorNames == {"A", "B"}
CategoryNames == {"Fiction"}

\* AuthorStub: the dict get_authors builds (id NoId when the agent has no id).
Stubs ==
    { [id |-> 1, name |-> "A", birth_year |-> 1800, death_year |-> 1870],
      [id |-> 2, name |-> "A", birth_year |-> 0, death_year |-> 0],
      [id |-> 1, name |-> "B", birth_year |-> 0, death_year |-> 0],
      [id |-> NoId, name |-> "B", birth_year |-> 1900, death_year |-> 0] }

SeqsUpTo(S, n) == UNION {[1..k -> S] : k \in 0..n}

BookIds == {1, 2}

ScalarFields == {"title", "release_date", "gutenberg_link", "language", "summary", "content"}
AssocFields == {"authors", "categories"}

\* Records whose scalar fields vary.
ScalarRecords ==
    { [id |-> i, title |-> Str(ti), release_date |-> rd, gutenberg_link |-> Str("l1"),
       language |-> la, summary |-> None, content |-> Str("text"),
       authors |-> <<>>, categories |-> <<>>] :
         i \in BookIds, ti \in {"T1", "T2"},
         rd \in {None, Str("2001-01-01"), Str("2002-02-02")},
         la \in {None, Str("en"), Str("fr")} }

\* Records whose author and category lists vary.
AssocRecords ==
    { [id |-> i, title |-> Str("T1"), release_date |-> None, gutenberg_link |-> Str("l1"),
       language |-> Str("en"), summary |-> None, content |-> None,
       authors |-> au, categories |-> ca] :
         i \in BookIds, au \in SeqsUpTo(Stubs, MaxAuthors),
         ca \in SeqsUpTo(CategoryNames, MaxCategories) }

Records == ScalarRecords \cup AssocRecords

----------------------------------------------------------------------------
(* The persistence engine: committed rows, one session used serially. *)

EmptyDb == [authors |-> {}, categories |-> {}, books |-> {}]

MaxOf(S) == IF S = {} THEN 0 ELSE CHOOSE x \in S : \A y \in S : y <= x

\* autoincrement: the engine assigns an id no row of the table uses.
GeneratedId(rows) == 1 + MaxOf({r.id : r \in rows})

\* A call in progress: the rows committed so far, the commits attempted so
\* far, and whether an exception is propagating.
Ctx(store) ==
    [db |-> store, commits |-> 0, err |-> FALSE, out |-> <<>>, created |-> FALSE,
     authors |-> None, categories |-> None]

get_author_absent(store, name) == NoId

get_author(store, name) ==
    LET found == {a \in store.authors : a.name = name}
    IN IF found = {} THEN NoId ELSE (CHOOSE a \in found : TRUE).id

get_category(store, name) ==
    LET found == {c \in store.categories : c.name = name}
    IN IF found = {} THEN NoId ELSE (CHOOSE c \in found : TRUE).id

get_book_by_id(store, book_id) == {b \in store.books : b.id = book_id}

\* A create_author whose insert no primary key refuses.
create_author_unkeyed(ctx, failAt, stub) ==
    IF ctx.commits + 1 = failAt
    THEN [ctx EXCEPT !.commits = @ + 1, !.err = TRUE]
    ELSE [ctx EXCEPT !.commits = @ + 1,
                     !.db.authors = @ \cup
                        {[id |-> IF stub.id = NoId THEN GeneratedId(ctx.db.authors)
                                 ELSE stub.id,
                          name |-> stub.name, birth_year |-> stub.birth_year,
                          death_year |-> stub.death_year]},
                     !.out = Append(@, IF stub.id = NoId THEN GeneratedId(ctx.db.authors)
                                       ELSE stub.id)]

\* db.add + db.commit; on SQLAlchemyError db.rollback and ValueError.
\* failAt is the commit of this call that fails for a reason outside the
\* data, such as a lost connection (0: none).
create_author(ctx, failAt, stub) ==
    LET n == ctx.commits + 1
        newId == IF stub.id = NoId THEN GeneratedId(ctx.db.authors) ELSE stub.id
        row == [id |-> newId, name |-> stub.name,
                birth_year |-> stub.birth_year, death_year |-> stub.death_year]
        refused == n = failAt \/ \E a \in ctx.db.authors : a.id = newId
    IN IF refused
       THEN [ctx EXCEPT !.commits = n, !.err = TRUE]
       ELSE [ctx EXCEPT !.commits = n, !.db.authors = @ \cup {row},
                        !.out = Append(@, newId)]

create_category(ctx, failAt, name) ==
    LET n == ctx.commits + 1
        newId == GeneratedId(ctx.db.categories)
        refused == n = failAt
    IN IF refused
       THEN [ctx EXCEPT !.commits = n, !.err = TRUE]
       ELSE [ctx EXCEPT !.commits = n,
                        !.db.categories = @ \cup {[id |-> newId, name |-> name]},
                        !.out = Append(@, newId)]

\* The loop of get_or_create_authors from stub i on; ctx.out collects the
\* ids of the resolved Author objects, in order.
RECURSIVE AuthorsLoop(_, _, _, _)
AuthorsLoop(ctx, failAt, stubs, i) ==
    IF ctx.err \/ i > Len(stubs) THEN ctx
    ELSE LET hit == get_author(ctx.db, stubs[i].name)
             nxt == IF hit # NoId
                    THEN [ctx EXCEPT !.out = Append(@, hit)]
                    ELSE create_author(ctx, failAt, stubs[i])
         IN AuthorsLoop(nxt, failAt, stubs, i + 1)

\* A get_or_create_authors that brings a found Author up to date with the
\* stub's birth year.
get_or_create_authors_refreshing(ctx, failAt, stubs) ==
    [AuthorsLoop([ctx EXCEPT !.out = <<>>], failAt, stubs, 1) EXCEPT
        !.db.authors =
            {[a EXCEPT !.birth_year =
                 IF \E k \in 1..Len(stubs) : stubs[k].name = a.name
                 THEN stubs[CHOOSE k \in 1..Len(stubs) : stubs[k].name = a.name].birth_year
                 ELSE @] : a \in @}]

get_or_create_authors(ctx, failAt, stubs) ==
    AuthorsLoop([ctx EXCEPT !.out = <<>>], failAt, stubs, 1)

RECURSIVE CategoriesLoop(_, _, _, _)
CategoriesLoop(ctx, failAt, names, i) ==
    IF ctx.err \/ i > Len(names) THEN ctx
    ELSE LET hit == get_category(ctx.db, names[i])
             nxt == IF hit # NoId
                    THEN [ctx EXCEPT !.out = Append(@, hit)]
                    ELSE create_category(ctx, failAt, names[i])
         IN CategoriesLoop(nxt, failAt, names, i + 1)

get_or_create_categories(ctx, failAt, names) ==
    CategoriesLoop([ctx EXCEPT !.out = <<>>], failAt, names, 1)

----------------------------------------------------------------------------
(* Book rows and the partial update. *)

\* What db.refresh reads back for a value written to column f.
Persisted(f, val) ==
    IF val.t = "NoneType" THEN val
    ELSE IF f = "release_date" THEN Date(val.v)
    ELSE IF f \in AssocFields THEN InstrumentedList(SortedSeq(Range(val.v)))
    ELSE val

\* book_author and book_category are keyed by (book_id, other_id): a list
\* naming one object twice inserts one link twice.
DuplicateLink(val) ==
    val.t \in {"list", "InstrumentedList"} /\ Cardinality(Range(val.v)) # Len(val.v)

IsInstance_any(newT, curT) == TRUE

\* isinstance(new_value, type(current_value))
IsInstance(newT, curT) ==
    newT = curT \/ (newT = "InstrumentedList" /\ curT = "list")

\* current_value != new_value
PyNe(cur, new) ==
    IF cur.t \in {"list", "InstrumentedList"} /\ new.t \in {"list", "InstrumentedList"}
    THEN cur.v # new.v
    ELSE cur.t # new.t \/ cur.v # new.v

HasAttr(f) == f \in ScalarFields \cup AssocFields

\* The test without its "new_value is None" guard.
Overwrites_null_too(book, f, new) ==
    /\ HasAttr(f)
    /\ PyNe(book[f], new)
    /\ (new.t = "NoneType" \/ IsInstance(new.t, book[f].t))

\* update_book's test for overwriting field f of book with new_value.
Overwrites(book, f, new) ==
    /\ ~(new.t = "NoneType" \/ ~HasAttr(f))
    /\ PyNe(book[f], new)
    /\ IsInstance(new.t, book[f].t)

\* **updates, in the order update_or_create_book passes them.
UpdateOrder ==
    <<"title", "release_date", "gutenberg_link", "language", "summary",
      "authors", "categories", "content">>

\* The for loop of update_book: the book after the setattr calls.
RECURSIVE FieldLoop(_, _, _)
FieldLoop(book, updates, i) ==
    IF i > Len(UpdateOrder) THEN book
    ELSE LET f == UpdateOrder[i]
         IN FieldLoop(IF Overwrites(book, f, updates[f])
                      THEN [book EXCEPT ![f] = updates[f]] ELSE book,
                      updates, i + 1)

updated_fields(book, updates) ==
    {f \in Range(UpdateOrder) : Overwrites(book, f, updates[f])}

\* The row create_book adds: Book(...) with the resolved lists assigned
\* when they are not empty.
NewBook(book_id, updates) ==
    [id |-> book_id] @@
    [f \in ScalarFields \cup AssocFields |->
        IF f \in AssocFields /\ updates[f].t = "NoneType"
        THEN InstrumentedList(<<>>) ELSE Persisted(f, updates[f])]

\* create_book leaving the Item's key to the engine.
create_book_generated_key(ctx, failAt, updates, book_id) ==
    IF ctx.commits + 1 = failAt
    THEN [ctx EXCEPT !.commits = @ + 1, !.err = TRUE]
    ELSE [ctx EXCEPT !.commits = @ + 1,
                     !.db.books = @ \cup {NewBook(GeneratedId(ctx.db.books), updates)},
                     !.out = GeneratedId(ctx.db.books), !.created = TRUE]

BookKey_generated(store, book_id) == GeneratedId(store.books)

\* Book(id = book_id, ...): with id None the autoincrement key is generated.
BookKey(store, book_id) ==
    IF book_id = NoId THEN GeneratedId(store.books) ELSE book_id

create_book(ctx, failAt, updates, book_id) ==
    IF \/ ctx.commits + 1 = failAt
       \/ \E b \in ctx.db.books : b.id = book_id
       \/ \E f \in AssocFields : DuplicateLink(updates[f])
    THEN [ctx EXCEPT !.commits = @ + 1, !.err = TRUE]
    ELSE [ctx EXCEPT !.commits = @ + 1,
                     !.db.books = @ \cup {NewBook(BookKey(ctx.db, book_id), updates)},
                     !.out = BookKey(ctx.db, book_id), !.created = TRUE]

\* The tail of update_book: commit and refresh when a field was set.
CommitUpdate(ctx, failAt, book, set, changed) ==
    IF changed = {} THEN [ctx EXCEPT !.out = book.id]
    ELSE IF \/ ctx.commits + 1 = failAt
            \/ \E f \in AssocFields \cap changed : DuplicateLink(set[f])
    THEN [ctx EXCEPT !.commits = @ + 1, !.err = TRUE]
    ELSE [ctx EXCEPT !.commits = @ + 1,
                     !.db.books = (@ \ {book}) \cup
                        {[f \in DOMAIN set |->
                            IF f \in changed THEN Persisted(f, set[f]) ELSE set[f]]},
                     !.out = book.id]

UpdateFound(ctx, failAt, updates, book) ==
    CommitUpdate(ctx, failAt, book, FieldLoop(book, updates, 1),
                 updated_fields(book, updates))

update_book(ctx, failAt, updates, book_id) ==
    IF get_book_by_id(ctx.db, book_id) = {} THEN [ctx EXCEPT !.out = NoId]
    ELSE UpdateFound(ctx, failAt, updates,
                     CHOOSE b \in get_book_by_id(ctx.db, book_id) : TRUE)

----------------------------------------------------------------------------
(* reconcile *)

\* The keyword arguments update_or_create_book hands to create_book and
\* update_book: the record's scalars and the resolved object lists.
Updates(rec, authors, categories) ==
    [f \in ScalarFields \cup AssocFields |->
        IF f = "authors" THEN authors
        ELSE IF f = "categories" THEN categories
        ELSE rec[f]]

\* "get_or_create_...(db, data) if data else None", as the list it yields.
Resolved(ctx, data) ==
    IF data # <<>> /\ ~ctx.err /\ ctx.out # <<>> THEN List(ctx.out) ELSE None

ResolveAuthors(ctx, failAt, rec) ==
    IF rec.authors # <<>> THEN get_or_create_authors(ctx, failAt, rec.authors) ELSE ctx

ResolveCategories(ctx, failAt, rec) ==
    IF ctx.err \/ rec.categories = <<>> THEN ctx
    ELSE get_or_create_categories(ctx, failAt, rec.categories)

WithAuthors(ctx, rec) == [ctx EXCEPT !.authors = Resolved(ctx, rec.authors)]

WithCategories(ctx, rec) == [ctx EXCEPT !.categories = Resolved(ctx, rec.categories)]

\* book = get_book_by_id(db, book_id); update it if found, else create it.
WriteBook(ctx, failAt, rec) ==
    IF ctx.err THEN ctx
    ELSE IF get_book_by_id(ctx.db, rec.id) # {}
    THEN update_book(ctx, failAt, Updates(rec, ctx.authors, ctx.categories), rec.id)
    ELSE create_book(ctx, failAt, Updates(rec, ctx.authors, ctx.categories), rec.id)

\* The result carries the rows committed when the call ended (db), whether
\* it raised (err) and, when it returned, the Item's id (out) and wasCreated
\* (created).
update_or_create_book(store, failAt, rec) ==
    WriteBook(
        WithCategories(
            ResolveCategories(
                WithAuthors(ResolveAuthors(Ctx(store), failAt, rec), rec),
                failAt, rec),
            rec),
        failAt, rec)

----------------------------------------------------------------------------
(* Spec: reconcile calls on one session, one after the other. *)

\* The most commits one call attempts: one per author, one per category,
\* one for the book.
MaxCommits == MaxAuthors + MaxCategories + 1

Families == {"scalar", "assoc"}

RecordsOf(fam) == IF fam = "scalar" THEN ScalarRecords ELSE AssocRecords

NoCall == [rec |-> <<>>, raised |-> FALSE, created |-> FALSE, id |-> NoId,
           commits |-> 0, failAt |-> 0, authors |-> None, categories |-> None]

\* What the caller sees of a call that ended in r.
Call(r, rec, failAt) ==
    [rec |-> rec, raised |-> r.err, created |-> ~r.err /\ r.created,
     id |-> IF r.err THEN NoId ELSE r.out, commits |-> r.commits, failAt |-> failAt,
     authors |-> r.authors, categories |-> r.categories]

\* The parts of the state a specification does not use stay as they are here.
NoCallers == <<>>
NoTasks == <<>>
NoSem == [value |-> 0, waiters |-> <<>>]
NoRun == "off"
NoDownload == [pc |-> "off"]
NoFn == [pc |-> "off"]

StoreInit ==
    /\ db = EmptyDb
    /\ pre = EmptyDb
    /\ last = NoCall
    /\ first = NoCall
    /\ ncalls = 0

Init ==
    /\ family \in Families
    /\ StoreInit
    /\ callers = NoCallers
    /\ tasks = NoTasks /\ sem = NoSem /\ run = NoRun
    /\ dl = NoDownload
    /\ fn = NoFn

Ended(r, call) ==
    /\ call.failAt <= r.commits
    /\ db' = r.db
    /\ pre' = db
    /\ last' = call
    /\ first' = IF ncalls = 0 THEN call ELSE first
    /\ ncalls' = IF ncalls < 2 THEN ncalls + 1 ELSE 3
    /\ UNCHANGED <<family, callers, tasks, sem, run, dl, fn>>

Called(r, rec, failAt) == Ended(r, Call(r, rec, failAt))

\* store_book_to_db's call of update_or_create_book with a parsed record.
Reconcile(rec, failAt) ==
    /\ last = NoCall
    /\ Called(update_or_create_book(db, failAt, rec), rec, failAt)

\* The caller takes the result (or the exception) and moves on.
Return ==
    /\ last # NoCall
    /\ last' = NoCall
    /\ pre' = EmptyDb
    /\ first' = IF ncalls >= 2 THEN NoCall ELSE first
    /\ UNCHANGED <<db, ncalls, family, callers, tasks, sem, run, dl, fn>>

Next ==
    \/ \E rec \in RecordsOf(family), failAt \in 0..MaxCommits : Reconcile(rec, failAt)
    \/ Return

Spec == Init /\ [][Next]_vars

----------------------------------------------------------------------------
(* Properties of Spec. *)

BookOf(store, book_id) == CHOOSE b \in store.books : b.id = book_id

IdsOf(val) == IF val.t = "NoneType" THEN {} ELSE Range(val.v)

TwiceInSuccession ==
    /\ ncalls = 2 /\ last # NoCall
    /\ last.rec = first.rec
    /\ ~first.raised /\ ~last.raised

UpdatedExisting(b) ==
    last # NoCall /\ b \in pre.books /\ last.rec.id = b.id

C9_RaisedLeavesStoreUnchanged ==
    (last # NoCall /\ last.raised) => db = pre

\* C10 as stated: after a reconcile call that found the Item and returned,
\* the Item's authors and categories are the sets resolved from the record.
C10_AssociationsReplaced ==
    \A b \in pre.books :
        (UpdatedExisting(b) /\ ~last.raised) =>
            /\ Range(BookOf(db, b.id).authors.v) = IdsOf(last.authors)
            /\ Range(BookOf(db, b.id).categories.v) = IdsOf(last.categories)

BookIdsIn(store) == {b.id : b \in store.books}

\* C22: the store holds one Item per external id of the reconcile calls that
\* returned, under that id as its primary key: a call that returns adds its
\* record's id to the ids stored unless it is there, and returns that id; a
\* call that raises adds none; no two Items share an id.
C22_OneItemPerExternalId ==
    /\ \A a, b \in db.books : a.id = b.id => a = b
    /\ last # NoCall =>
          /\ BookIdsIn(db) =
                 BookIdsIn(pre) \cup (IF last.raised THEN {} ELSE {last.rec.id})
          /\ ~last.raised => last.id = last.rec.id

C22_Witness ==
    /\ last # NoCall /\ ~last.raised /\ ~last.created
    /\ last.rec.id = 2
    /\ BookIdsIn(pre) = {1, 2}
    /\ Cardinality(db.books) = 2

\* The rows of store that the names of a record's stubs, and of its
\* categories, stand for (NoId for a name not stored).
AuthorsNamed(store, rec) ==
    {get_author(store, rec.authors[k].name) : k \in 1..Len(rec.authors)}

CategoriesNamed(store, rec) ==
    {get_category(store, rec.categories[k]) : k \in 1..Len(rec.categories)}

\* Item b of store holds the record's values in every field, and is linked
\* to the Authors and Categories the record names.
AlreadyEqual(store, b, rec) ==
    /\ \A f \in ScalarFields : b[f] = Persisted(f, rec[f])
    /\ NoId \notin AuthorsNamed(store, rec) \cup CategoriesNamed(store, rec)
    /\ Range(b.authors.v) = AuthorsNamed(store, rec)
    /\ Range(b.categories.v) = CategoriesNamed(store, rec)

\* C23: a reconcile call on a record whose Item is stored with the record's
\* values and associations returns having issued no commit, and leaves every
\* Item, Author and Category row as it was.
C23_EqualRecordWritesNothing ==
    \A b \in pre.books :
        (UpdatedExisting(b) /\ AlreadyEqual(pre, b, last.rec)) =>
            /\ ~last.raised /\ ~last.created
            /\ last.commits = 0
            /\ db = pre

C23_Witness ==
    \E b \in pre.books :
        /\ UpdatedExisting(b) /\ AlreadyEqual(pre, b, last.rec)
        /\ last.rec.release_date # None /\ last.rec.language # None
        /\ last.commits = 0 /\ db = pre

\* The scalar columns that hold text, as the record's values do.
TextFields == ScalarFields \ {"release_date"}

\* C24 as stated: after a reconcile call that found the Item and returned,
\* every text field for which the record has a value holds that value,
\* whether the stored value was null or not.
C24_NonNullValuesStored ==
    \A b \in pre.books :
        (UpdatedExisting(b) /\ ~last.raised) =>
            \A f \in TextFields :
                last.rec[f] # None => BookOf(db, b.id)[f] = last.rec[f]

\* Stub k of the record names an Author that is not stored, and that no
\* earlier stub of the record names, under the id of a stored Author with
\* another name.
KeyTaken(store, rec, k) ==
    /\ get_author(store, rec.authors[k].name) = NoId
    /\ \A j \in 1..(k - 1) : rec.authors[j].name # rec.authors[k].name
    /\ \E a \in store.authors :
          a.id = rec.authors[k].id /\ a.name # rec.authors[k].name

\* C28: a reconcile call on a record with such a stub attempts an insert,
\* raises, and leaves the Items as they were: none created, none updated.
C28_AuthorKeyClashRaises ==
    (last # NoCall /\ \E k \in 1..Len(last.rec.authors) : KeyTaken(pre, last.rec, k)) =>
        /\ last.raised
        /\ last.commits >= 1
        /\ db.books = pre.books

C28_Witness ==
    /\ last # NoCall /\ last.failAt = 0
    /\ \E k \in 1..Len(last.rec.authors) : KeyTaken(pre, last.rec, k)
    /\ last.rec.id \in BookIdsIn(pre)
    /\ last.raised /\ db.books = pre.books

\* C20: a step of the session leaves every Author and Category row that
\* exists as it is.
C20_RowsNeverModified ==
    [][db.authors \subseteq db'.authors /\ db.categories \subseteq db'.categories]_vars

C20_Witness ==
    /\ last # NoCall /\ ~last.raised
    /\ \E a \in pre.authors : \E k \in 1..Len(last.rec.authors) :
          /\ last.rec.authors[k].name = a.name
          /\ last.rec.authors[k].birth_year # a.birth_year
          /\ a \in db.authors
    /\ \E c \in pre.categories : c \in db.categories

----------------------------------------------------------------------------
(* SpecCallers: get_or_create_authors called by several callers at once,   *)
(* each on its own session. A lookup and a create are one transaction      *)
(* each; between them the other callers run.                               *)

NumCallers == 2

Callers == 1..NumCallers

AuthorLists == SeqsUpTo(Stubs, MaxAuthors) \ {<<>>}

Idle == [pc |-> "idle", stubs |-> <<>>, i |-> 0]

InitCallers ==
    /\ family = "assoc"
    /\ StoreInit
    /\ callers = [c \in Callers |-> Idle]
    /\ tasks = NoTasks /\ sem = NoSem /\ run = NoRun
    /\ dl = NoDownload
    /\ fn = NoFn

\* After stub i is resolved: on to the next stub, or return.
Advance(c) ==
    IF callers[c].i < Len(callers[c].stubs)
    THEN [callers EXCEPT ![c].pc = "lookup", ![c].i = @ + 1]
    ELSE [callers EXCEPT ![c] = Idle]

\* get_or_create_authors(db, authors_data) is entered.
Enter(c, stubs) ==
    /\ callers[c].pc = "idle"
    /\ callers' = [callers EXCEPT ![c] = [pc |-> "lookup", stubs |-> stubs, i |-> 1]]
    /\ UNCHANGED <<db, pre, last, first, ncalls, family, tasks, sem, run, dl, fn>>

\* author = get_author(db, author_info["name"])
Lookup(c) ==
    /\ callers[c].pc = "lookup"
    /\ callers' = IF get_author(db, callers[c].stubs[callers[c].i].name) # NoId
                  THEN Advance(c)
                  ELSE [callers EXCEPT ![c].pc = "create"]
    /\ UNCHANGED <<db, pre, last, first, ncalls, family, tasks, sem, run, dl, fn>>

Created(c, ctx) ==
    /\ db' = ctx.db
    /\ callers' = IF ctx.err THEN [callers EXCEPT ![c] = Idle] ELSE Advance(c)

\* author = create_author(db, ...): the row is committed, or the call raises.
Create(c, failAt) ==
    /\ callers[c].pc = "create"
    /\ Created(c, create_author(Ctx(db), failAt, callers[c].stubs[callers[c].i]))
    /\ UNCHANGED <<pre, last, first, ncalls, family, tasks, sem, run, dl, fn>>

NextCallers ==
    \/ \E c \in Callers, stubs \in AuthorLists : Enter(c, stubs)
    \/ \E c \in Callers : Lookup(c)
    \/ \E c \in Callers, failAt \in 0..1 : Create(c, failAt)

SpecCallers == InitCallers /\ [][NextCallers]_vars

\* C2 as stated: the store holds at most one Author row per name.
C2_OneAuthorPerName ==
    \A a, b \in db.authors : a.name = b.name => a = b

\* The stub a caller is resolving.
Resolving(c) == callers[c].stubs[callers[c].i]

\* create_author returned a row to caller c in this step.
CreateSucceeded(c) ==
    /\ callers[c].pc = "create"
    /\ callers'[c] # callers[c]
    /\ db'.authors # db.authors

----------------------------------------------------------------------------
(* SpecRun: main() builds one store_book_to_db task per descriptor and      *)
(* gathers them on one event loop. A task runs from one await to the next   *)
(* without interruption: it parses its descriptor, takes a permit of the    *)
(* semaphore, issues its GET, and when the GET resolves gives the permit    *)
(* back and reconciles its record on the shared session.                    *)

\* main.py sets MAX_WORKERS = 10; the model runs with fewer permits and a
\* batch larger than that.
MAX_WORKERS == 2
NumTasks == 4

TaskIds == 1..NumTasks

\* A descriptor: well formed with a text link, well formed without one,
\* malformed XML, without an ebook id, or without a title.
Kinds == {"ok", "nolink", "malformed", "noid", "notitle"}

\* The record extract_metadata yields for descriptor i, with the content
\* parse_book returned.
TaskRecord(kind, i, content) ==
    [id |-> IF kind = "noid" THEN NoId ELSE i,
     title |-> IF kind = "notitle" THEN None ELSE Str("T1"),
     release_date |-> None, gutenberg_link |-> Str("l1"),
     language |-> Str("en"), summary |-> None, content |-> content,
     authors |-> <<>>,
     categories |-> IF kind \in {"noid", "notitle"} THEN <<"Fiction">> ELSE <<>>]

\* The descriptors of a run, of which at most MaxVoid lack an id or a title.
MaxVoid == 1

Batches ==
    {b \in [TaskIds -> Kinds] :
        Cardinality({i \in TaskIds : b[i] \in {"noid", "notitle"}}) <= MaxVoid}

\* What parse_book has returned before it was called.
NoContent == [t |-> "pending", v |-> ""]

\* A task before its first step: gets counts the GETs it issued, fetch is
\* how its GET resolved, content what parse_book returned, and err what made
\* the task raise.
NewTask(k) ==
    [kind |-> k, pc |-> "new", book |-> NoId, gets |-> 0, fetch |-> "none",
     content |-> NoContent, err |-> "none"]

InitRun ==
    /\ family = "scalar"
    /\ StoreInit
    /\ callers = NoCallers
    /\ \E batch \in Batches : tasks = [i \in TaskIds |-> NewTask(batch[i])]
    /\ sem = [value |-> MAX_WORKERS, waiters |-> <<>>]
    /\ run = "gathering"
    /\ dl = NoDownload
    /\ fn = NoFn

AllStarted == \A j \in TaskIds : tasks[j].pc # "new"

\* A semaphore that never reports itself taken.
Locked_never(s) == FALSE

\* Semaphore.locked()
Locked(s) == s.value = 0 \/ s.waiters # <<>>

\* The event loop state a task step works on.
Loop == [tasks |-> tasks, sem |-> sem, db |-> db]

\* Semaphore.release(): the permit goes to the first waiter, if any.
Release(lp) ==
    IF lp.sem.waiters # <<>>
    THEN [lp EXCEPT !.sem.waiters = Tail(@),
                    !.tasks[Head(lp.sem.waiters)].pc = "granted"]
    ELSE [lp EXCEPT !.sem.value = @ + 1]

\* The rest of store_book_to_db once parse_book has returned: r is what
\* update_or_create_book did; an exception ends the task.
Stored(lp, i, r) ==
    [lp EXCEPT !.db = r.db,
               !.tasks[i].pc = IF r.err THEN "raised" ELSE "done",
               !.tasks[i].err = IF r.err THEN "persist" ELSE "none",
               !.tasks[i].book = IF r.err THEN NoId ELSE r.out]

\* A parse_book whose null result ends the task with an exception.
Returned_raising(lp, i, content, failAt) ==
    IF content = None
    THEN [Release(lp) EXCEPT !.tasks[i].content = content,
                             !.tasks[i].pc = "raised", !.tasks[i].err = "fetch"]
    ELSE Stored([Release(lp) EXCEPT !.tasks[i].content = content], i,
                update_or_create_book(lp.db, failAt, TaskRecord(lp.tasks[i].kind, i, content)))

\* A reconcile that works on the store as it was when the run began, as one
\* cut in two by another task's writes would.
Returned_stale(lp, i, content, failAt) ==
    Stored([Release(lp) EXCEPT !.tasks[i].content = content], i,
           update_or_create_book(EmptyDb, failAt, TaskRecord(lp.tasks[i].kind, i, content)))

\* parse_book returns content: the permit is given back and the record is
\* reconciled, with no await in between.
Returned(lp, i, content, failAt) ==
    Stored([Release(lp) EXCEPT !.tasks[i].content = content], i,
           update_or_create_book(lp.db, failAt, TaskRecord(lp.tasks[i].kind, i, content)))

\* http_session.get(metadata["book_link"]) with the permit held: a missing
\* link raises at once and parse_book returns None.
IssueGet(lp, i, failAt) ==
    IF lp.tasks[i].kind = "nolink" THEN Returned(lp, i, None, failAt)
    ELSE [lp EXCEPT !.tasks[i].pc = "fetching", !.tasks[i].gets = @ + 1]

\* async with semaphore
Acquire(lp, i, failAt) ==
    IF Locked(lp.sem)
    THEN [lp EXCEPT !.sem.waiters = Append(@, i), !.tasks[i].pc = "waiting"]
    ELSE IssueGet([lp EXCEPT !.sem.value = @ - 1], i, failAt)

\* The first step of a task: fetch_metadata_from_rdf_file, then parse_book
\* up to its first await.
FirstStep(lp, i, failAt) ==
    IF lp.tasks[i].kind = "malformed"
    THEN [lp EXCEPT !.tasks[i].pc = "raised", !.tasks[i].err = "parse"]
    ELSE Acquire(lp, i, failAt)

Becomes(lp) ==
    /\ tasks' = lp.tasks
    /\ sem' = lp.sem
    /\ db' = lp.db
    /\ UNCHANGED <<pre, last, first, ncalls, family, callers, run, dl, fn>>

\* Tasks take their first step in the order gather scheduled them.
Start(i, failAt) ==
    /\ run = "gathering"
    /\ tasks[i].pc = "new"
    /\ \A j \in TaskIds : j < i => tasks[j].pc # "new"
    /\ Becomes(FirstStep(Loop, i, failAt))

\* A waiting task is resumed with the permit it was handed.
Resume(i, failAt) ==
    /\ run = "gathering" /\ AllStarted
    /\ tasks[i].pc = "granted"
    /\ Becomes(IssueGet(Loop, i, failAt))

Outcomes == {"ok", "status", "transport"}

\* A parse_book that hands back text whatever became of the GET.
Fetched_anyway(kind, outcome) == Str("text")

\* What parse_book returns once its GET has resolved: the cleaned text, or
\* None when raise_for_status or the transport raised, and also when
\* extract_book_content raised on a title that is None.
Fetched(kind, outcome) ==
    IF outcome = "ok" /\ kind # "notitle" THEN Str("text") ELSE None

\* The GET of task i resolves: the body is read, or raise_for_status or the
\* transport raises and parse_book returns None.
Resolve(i, outcome, failAt) ==
    /\ run = "gathering" /\ AllStarted
    /\ tasks[i].pc = "fetching"
    /\ Becomes(Returned([Loop EXCEPT !.tasks[i].fetch =
                                       IF outcome = "ok" THEN "ok" ELSE "failed"], i,
                        Fetched(tasks[i].kind, outcome), failAt))

\* The semaphore once every pending task was cancelled: a waiter leaves the
\* queue, and a task that holds a permit, or was handed one, gives it back
\* on its way out of "async with semaphore".
Cancelled(s, ts) ==
    [value |-> s.value +
                 Cardinality({i \in TaskIds : ts[i].pc \in {"granted", "fetching"}}),
     waiters |-> <<>>]

\* gather hands the first exception to main, which leaves its with blocks;
\* asyncio.run cancels the tasks still pending.
MainAbort ==
    /\ run = "gathering" /\ AllStarted
    /\ \E i \in TaskIds : tasks[i].pc = "raised"
    /\ run' = "aborted"
    /\ tasks' = [i \in TaskIds |->
                   IF tasks[i].pc \in {"waiting", "granted", "fetching"}
                   THEN [tasks[i] EXCEPT !.pc = "cancelled"] ELSE tasks[i]]
    /\ sem' = Cancelled(sem, tasks)
    /\ UNCHANGED <<db, pre, last, first, ncalls, family, callers, dl, fn>>

\* gather returns the results and main logs them.
MainReport ==
    /\ run = "gathering"
    /\ \A i \in TaskIds : tasks[i].pc = "done"
    /\ run' = "completed"
    /\ UNCHANGED <<db, pre, last, first, ncalls, family, callers, tasks, sem, dl, fn>>

NextRun ==
    \/ \E i \in TaskIds, failAt \in 0..1 : Start(i, failAt)
    \/ \E i \in TaskIds, failAt \in 0..1 : Resume(i, failAt)
    \/ \E i \in TaskIds, o \in Outcomes, failAt \in 0..1 : Resolve(i, o, failAt)
    \/ MainAbort
    \/ MainReport

SpecRun == InitRun /\ [][NextRun]_vars

----------------------------------------------------------------------------
(* Properties of SpecRun. *)

\* Fetches that have issued their GET and have not resolved.
InFlight == {i \in TaskIds : tasks[i].pc = "fetching"}

\* Fetches scheduled and not resolved.
Outstanding == {i \in TaskIds : tasks[i].pc \in {"waiting", "granted", "fetching"}}

RunEnded == run \in {"aborted", "completed"}

Reconciled(i) == tasks[i].kind # "malformed" /\ tasks[i].pc \in {"done", "raised"}

\* C4: at no moment are more than MAX_WORKERS fetches in flight.
C4_BoundedFetches == Cardinality(InFlight) <= MAX_WORKERS

C4_Witness ==
    /\ Cardinality(InFlight) = MAX_WORKERS
    /\ \E i \in TaskIds : tasks[i].pc = "waiting"
    /\ \E i \in TaskIds : tasks[i].pc = "done"

\* C6 as stated: a step that reconciles a record is taken only when no
\* fetch of the batch is outstanding.
C6_ReconcileAfterBarrier ==
    [][\A i \in TaskIds :
          (~Reconciled(i) /\ Reconciled(i)') => Outstanding \ {i} = {}]_vars

\* C7 as stated: when the reconcile of a record has failed, the run ends
\* completed and every other well-formed record has been reconciled.
C7_PersistenceFailureConfined ==
    \A i \in TaskIds :
        (RunEnded /\ tasks[i].kind # "malformed" /\ tasks[i].pc = "raised") =>
            /\ run = "completed"
            /\ \A j \in TaskIds \ {i} : tasks[j].kind # "malformed" => Reconciled(j)

\* C8 as stated: when a descriptor is malformed XML, the run ends completed
\* and every other descriptor has been parsed, fetched and reconciled.
C8_MalformedDescriptorDiscarded ==
    \A i \in TaskIds :
        (RunEnded /\ tasks[i].kind = "malformed") =>
            /\ run = "completed"
            /\ \A j \in TaskIds : tasks[j].kind # "malformed" => tasks[j].pc = "done"

\* C11 as stated: a record without id or without title is skipped: no Item
\* is reconciled for it and no Category row is created on its behalf (in a
\* run only such records carry a bookshelf).
C11_VoidRecordSkipped ==
    \A i \in TaskIds :
        tasks[i].kind \in {"noid", "notitle"} =>
            tasks[i].book = NoId /\ db.categories = {}

\* C14: a content fetch issues at most one GET, and when that GET ends in
\* an error status or a transport error parse_book has returned None.
C14_SingleGetNullOnFailure ==
    \A i \in TaskIds :
        /\ tasks[i].gets <= 1
        /\ tasks[i].fetch = "failed" => (tasks[i].gets = 1 /\ tasks[i].content = None)

C14_Witness ==
    \E i \in TaskIds :
        /\ tasks[i].fetch = "failed" /\ tasks[i].gets = 1
        /\ tasks[i].content = None /\ tasks[i].pc = "done"

\* The GET of task i ends in failure in this step.
FetchFails(i) == tasks[i].fetch = "none" /\ tasks'[i].fetch = "failed"

\* C15: a failed fetch ends no task with an exception of its own, the step
\* in which it fails touches no other task beyond handing on the permit,
\* and a task is only ever cancelled after a parse or persistence error.
C15_FailedFetchIsolated ==
    /\ [](\A i \in TaskIds :
            (tasks[i].fetch = "failed" /\ tasks[i].pc = "raised") =>
                tasks[i].err = "persist")
    /\ [](\A j \in TaskIds :
            tasks[j].pc = "cancelled" =>
                \E k \in TaskIds : tasks[k].pc = "raised" /\ tasks[k].err \in {"parse", "persist"})
    /\ [][\A i \in TaskIds : FetchFails(i) =>
            \A j \in TaskIds \ {i} :
                \/ tasks'[j] = tasks[j]
                \/ tasks[j].pc = "waiting" /\ tasks'[j] = [tasks[j] EXCEPT !.pc = "granted"]]_vars

C15_Witness ==
    /\ run = "completed"
    /\ \E i, j \in TaskIds :
          /\ tasks[i].fetch = "failed" /\ tasks[i].pc = "done"
          /\ tasks[j].fetch = "ok" /\ tasks[j].pc = "done" /\ tasks[j].content = Str("text")

\* Task i ends in this step, by returning from its reconcile or by raising.
Ends(i) ==
    /\ tasks[i].pc \in {"new", "granted", "fetching"}
    /\ tasks'[i].pc \in {"done", "raised"}

AllPermitsFree == sem = [value |-> MAX_WORKERS, waiters |-> <<>>]

\* C27 as stated: the batch ends only by completing, with parse_book's
\* result, content or null, recorded for every input record and with every
\* permit of the semaphore free. No step leaves run = "aborted", so a batch
\* that eventually completes never passes through it.
C27_BatchCompletes ==
    run # "gathering" =>
        /\ run = "completed"
        /\ \A i \in TaskIds : tasks[i].content # NoContent
        /\ AllPermitsFree

----------------------------------------------------------------------------
(* SpecDownload: prepare_rdf_data and process_rdf_files, or download_rdf_file
   called on its own. The archive is L bytes long, a byte is named by its
   offset, a chunk is one byte, and the destination file is the sequence of
   bytes written to it. *)

MaxSize == 3
MaxGets == 3
RetryTotal == 1

\* The bytes of the archive from offset a on.
BytesFrom(a, L) == [k \in 1..(IF a < L THEN L - a ELSE 0) |-> a + k - 1]

\* How the download is entered: by prepare_rdf_data, or by a call of
\* download_rdf_file itself.
Entries == {"prepare", "download"}

\* RDF_UNZIP_FOLDER_PATH: absent, present without cache/epub, or present
\* with it.
Folders == {"absent", "empty", "epub"}

\* The destination is absent, or holds what an earlier call left: a prefix
\* of the archive or all of it. tar tells whether the zip holds a .tar
\* member.
InitDownload ==
    /\ family = "scalar"
    /\ StoreInit
    /\ callers = NoCallers
    /\ tasks = NoTasks
    /\ sem = NoSem
    /\ run = NoRun
    /\ fn = NoFn
    /\ \E L \in 1..MaxSize, n \in 0..MaxSize, present \in BOOLEAN,
          via \in Entries, t \in BOOLEAN, fo \in Folders :
         /\ n <= L
         /\ present \/ n = 0
         /\ via = "download" => (t /\ fo = "absent")
         /\ dl = [pc |-> "start", via |-> via, size |-> L, total |-> 0,
                  exists |-> present, file |-> BytesFrom(0, n),
                  exists0 |-> present, file0 |-> BytesFrom(0, n),
                  range |-> 0, mode |-> "wb", body |-> <<>>, gets |-> 0, sends |-> 0,
                  tar |-> t, folder |-> fo, expanded |-> FALSE]

Downloads(d) ==
    /\ dl' = d
    /\ UNCHANGED <<db, pre, last, first, ncalls, family, callers, tasks, sem, run, fn>>

\* prepare_rdf_data: "if not RDF_ZIP_FILE_PATH.exists()" downloads, else
\* goes on to the extraction; a direct call always downloads.
Begin ==
    /\ dl.pc = "start"
    /\ Downloads(IF dl.via = "prepare" /\ dl.exists
                 THEN [dl EXCEPT !.pc = "ready"] ELSE [dl EXCEPT !.pc = "head"])

\* requests.head(url).headers.get("Content-Length", 0), outside the try.
HeadRequest(outcome) ==
    /\ dl.pc = "head"
    /\ Downloads(CASE outcome = "length" -> [dl EXCEPT !.pc = "loop", !.total = dl.size]
                   [] outcome = "nolength" -> [dl EXCEPT !.pc = "loop", !.total = 0]
                   [] OTHER -> [dl EXCEPT !.pc = "raised"])

\* A file size read as 0 whatever the file holds.
downloaded_size_unread(d) == 0

\* os.path.getsize(filename) if os.path.exists(filename) else 0
downloaded_size(d) == IF d.exists THEN Len(d.file) ELSE 0

\* A Range header that always asks for the whole archive.
RangeHeader_from_start(size) == 0

\* {"Range": f"bytes={downloaded_size}-"}
RangeHeader(size) == size

\* One turn of the loop up to session.get: done when the file has reached
\* the expected length, otherwise the GET is sent. gets counts the GETs up
\* to MaxGets.
Iterate ==
    /\ dl.pc = "loop"
    /\ IF downloaded_size(dl) >= dl.total
       THEN Downloads([dl EXCEPT !.pc = "done"])
       ELSE Downloads([dl EXCEPT !.pc = "requesting",
                                 !.range = RangeHeader(downloaded_size(dl)),
                                 !.mode = IF downloaded_size(dl) # 0 THEN "ab" ELSE "wb",
                                 !.gets = IF @ < MaxGets THEN @ + 1 ELSE @,
                                 !.sends = 0])

\* The adapter sends the same request again after a 5xx answer.
Resend ==
    /\ dl.pc = "requesting"
    /\ dl.sends < RetryTotal
    /\ Downloads([dl EXCEPT !.sends = @ + 1])

\* open(filename, mode)
Opened(d) ==
    IF d.mode = "wb" THEN [d EXCEPT !.exists = TRUE, !.file = <<>>]
    ELSE [d EXCEPT !.exists = TRUE]

\* An except clause that lets the exception out.
Caught_reraised(d) == [d EXCEPT !.pc = "raised", !.body = <<>>]

\* except requests.exceptions.RequestException: log, sleep, next turn.
Caught(d) == [d EXCEPT !.pc = "loop", !.body = <<>>]

\* The answer to the GET: 206 carries the bytes from the offset asked for,
\* 200 the whole archive; an error status makes raise_for_status raise and a
\* transport error makes session.get raise, both caught by the except clause.
Respond(answer) ==
    /\ dl.pc = "requesting"
    /\ Downloads(CASE answer = "partial" ->
                        [Opened(dl) EXCEPT !.pc = "streaming",
                                           !.body = BytesFrom(dl.range, dl.size)]
                   [] answer = "full" ->
                        [Opened(dl) EXCEPT !.pc = "streaming",
                                           !.body = BytesFrom(0, dl.size)]
                   [] OTHER -> Caught(dl))

\* f.write(chunk)
Chunk ==
    /\ dl.pc = "streaming"
    /\ dl.body # <<>>
    /\ Downloads([dl EXCEPT !.file = Append(@, Head(dl.body)), !.body = Tail(@)])

\* iter_content is exhausted and the with blocks close.
StreamEnds ==
    /\ dl.pc = "streaming"
    /\ dl.body = <<>>
    /\ Downloads([dl EXCEPT !.pc = "loop"])

\* The connection breaks in the middle of the body.
StreamFails ==
    /\ dl.pc = "streaming"
    /\ dl.body # <<>>
    /\ Downloads(Caught(dl))

\* zipfile.ZipFile(zip_file, "r") finds the archive at the end of the file.
ReadableZip(d) ==
    /\ d.exists
    /\ Len(d.file) >= d.size
    /\ SubSeq(d.file, Len(d.file) - d.size + 1, Len(d.file)) = BytesFrom(0, d.size)

\* extract_tar_zip_file: the zip is unpacked into the folder, then its
\* first .tar member, which holds cache/epub; without such a member the
\* call only logs.
extract_tar_zip_file(d) ==
    IF ~ReadableZip(d) THEN [d EXCEPT !.pc = "failed"]
    ELSE [d EXCEPT !.pc = "extracted", !.expanded = TRUE,
                   !.folder = IF d.tar THEN "epub" ELSE "empty"]

\* The second half of prepare_rdf_data: "if not RDF_UNZIP_FOLDER_PATH.exists()"
\* extracts, else goes on.
Extract ==
    /\ dl.via = "prepare"
    /\ dl.pc \in {"ready", "done"}
    /\ Downloads(IF dl.folder = "absent" THEN extract_tar_zip_file(dl)
                 ELSE [dl EXCEPT !.pc = "extracted"])

\* process_rdf_files: folder.iterdir() on RDF_UNZIP_FOLDER_PATH/cache/epub.
Enumerate ==
    /\ dl.pc = "extracted"
    /\ Downloads([dl EXCEPT !.pc = IF dl.folder = "epub" THEN "listed" ELSE "failed"])

NextDownload ==
    \/ Begin
    \/ \E o \in {"length", "nolength", "error"} : HeadRequest(o)
    \/ Iterate
    \/ Resend
    \/ \E a \in {"partial", "full", "status", "transport"} : Respond(a)
    \/ Chunk
    \/ StreamEnds
    \/ StreamFails
    \/ Extract
    \/ Enumerate

SpecDownload == InitDownload /\ [][NextDownload]_vars

\* Requests eventually succeed: a GET that is sent again and again is
\* eventually answered with a body, and a body that is streamed again and
\* again eventually delivers its next chunk.
RequestsSucceed ==
    /\ WF_vars(Iterate)
    /\ WF_vars(StreamEnds)
    /\ SF_vars(Respond("partial") \/ Respond("full"))
    /\ SF_vars(Chunk)

SpecDownloadFair == SpecDownload /\ RequestsSucceed

----------------------------------------------------------------------------
(* Properties of SpecDownload. *)

\* C5: whenever a GET is being sent, first attempt or retry, its Range
\* header starts at the size the destination file has at that moment.
C5_RangeResumesAtFileSize ==
    dl.pc = "requesting" => dl.range = downloaded_size(dl)

C5_Witness ==
    /\ dl.pc = "requesting"
    /\ dl.gets >= 2
    /\ dl.range > 0
    /\ dl.range = Len(dl.file)

\* download_rdf_file has read total_size.
Sized == dl.pc \in {"loop", "requesting", "streaming", "done"}

\* C12: when the destination exists with at least total_size bytes at the
\* call, download_rdf_file issues no GET, leaves the file as it was and
\* returns.
C12_CompleteFileUntouched ==
    (Sized /\ dl.exists0 /\ Len(dl.file0) >= dl.total) =>
        /\ dl.gets = 0
        /\ dl.exists /\ dl.file = dl.file0
        /\ dl.pc \in {"loop", "done"}

C12_Witness ==
    /\ dl.pc = "done"
    /\ dl.exists0 /\ dl.total > 0 /\ Len(dl.file0) >= dl.total
    /\ dl.gets = 0 /\ dl.file = dl.file0

\* C13: once in its loop download_rdf_file never raises, it returns only
\* with the file at least total_size long, and when requests eventually
\* succeed it does return.
C13_RetriesUntilComplete ==
    /\ [][dl.pc \in {"loop", "requesting", "streaming"} => dl'.pc # "raised"]_vars
    /\ [](dl.pc = "done" => downloaded_size(dl) >= dl.total)
    /\ (dl.pc = "loop" ~> dl.pc = "done")

C13_Witness ==
    /\ dl.pc = "done"
    /\ dl.gets = MaxGets
    /\ dl.total > 0
    /\ downloaded_size(dl) >= dl.total

\* prepare_rdf_data calls extract_tar_zip_file in this step.
ExpanderInvoked ==
    /\ dl.via = "prepare"
    /\ dl.pc \in {"ready", "done"}
    /\ dl.folder = "absent"
    /\ dl'.pc \in {"extracted", "failed"}

\* C25 as stated: prepare_rdf_data calls extract_tar_zip_file only when the
\* destination file is the whole archive; a partial file left by an
\* interrupted run is first completed.
C25_ExpandsOnlyCompleteArchive ==
    [][ExpanderInvoked => (dl.exists /\ dl.file = BytesFrom(0, dl.size))]_vars

\* The first n bytes of the archive.
ArchivePrefix(n) == SubSeq(BytesFrom(0, dl.size), 1, n)

\* C26 as stated: with total_size read from the archive's Content-Length,
\* the destination file is at every moment a prefix of the archive, its
\* size never decreases, and when download_rdf_file returns the file is the
\* archive.
C26_FileIsArchivePrefix ==
    /\ []((Sized /\ dl.total = dl.size /\ dl.exists) =>
             /\ Len(dl.file) <= dl.size
             /\ dl.file = ArchivePrefix(Len(dl.file))
             /\ dl.pc = "done" => dl.file = BytesFrom(0, dl.size))
    /\ [][(Sized /\ dl.total = dl.size) => Len(dl'.file) >= Len(dl.file)]_vars

\* C19 as stated: when the zip holds no .tar member, extract_tar_zip_file
\* returns normally and the run goes on without failing.
C19_MissingMemberSkipped ==
    (dl.expanded /\ ~dl.tar) => dl.pc # "failed"

----------------------------------------------------------------------------
(* SpecExtract: one call of extract_metadata on a well-formed descriptor, or
   of extract_book_content on a title and a text. A string is the sequence
   of its tokens: a separator is a token of its own and every other token
   is a run of characters holding no separator. *)

\* None where a string is expected, and a string.
NoText == [t |-> "NoneType", v |-> <<>>]
Text(q) == [t |-> "str", v |-> q]

\* None where a list is expected, and a list.
NoList == [t |-> "NoneType", v |-> <<>>]
ListOf(q) == [t |-> "list", v |-> q]

\* An element that root.find did not find, and one it found with its text
\* (None for an empty element) and its rdf:about attribute.
NoNode == [present |-> FALSE, text |-> NoText, about |-> NoText]
Node(text, about) == [present |-> TRUE, text |-> text, about |-> about]

\* The positions of separator sep in q.
Seps(q, sep) == {k \in 1..Len(q) : q[k] = sep}

\* q.split(sep)[0]
FirstSegment(q, sep) ==
    IF Seps(q, sep) = {} THEN q
    ELSE SubSeq(q, 1, (CHOOSE k \in Seps(q, sep) : \A m \in Seps(q, sep) : k <= m) - 1)

\* q.split(sep)[-1]
LastSegment(q, sep) ==
    IF Seps(q, sep) = {} THEN q
    ELSE SubSeq(q, (CHOOSE k \in Seps(q, sep) : \A m \in Seps(q, sep) : k >= m) + 1, Len(q))

\* q.startswith(p)
StartsWith(q, p) == Len(q) >= Len(p) /\ SubSeq(q, 1, Len(p)) = p

\* text.split("/")[-1] if text else None
extract_id(text) ==
    IF text.t = "NoneType" \/ text.v = <<>> THEN NoText
    ELSE Text(LastSegment(text.v, "/"))

\* The integers written in the descriptors.
Numerals == [n \in {"1", "7", "1800"} |-> IF n = "1" THEN 1 ELSE IF n = "7" THEN 7 ELSE 1800]

\* int(text) if text else None, None too on ValueError; None is NoId.
parse_int(text) ==
    IF text.t = "NoneType" \/ text.v = <<>> THEN NoId
    ELSE IF Len(text.v) = 1 /\ text.v[1] \in DOMAIN Numerals THEN Numerals[text.v[1]]
    ELSE NoId

\* el.text if el is not None else None
get_text(el) == IF el.present THEN el.text ELSE NoText

\* What a helper hands back: a value, or an exception.
Value(v) == [raised |-> FALSE, v |-> v]
Raised == [raised |-> TRUE, v |-> NoText]

\* get_book_id
get_book_id(doc) ==
    IF doc.ebook.present THEN parse_int(extract_id(doc.ebook.about)) ELSE NoId

\* get_book_link from file k on: the rdf:about of the first file whose
\* format value starts with text/plain; the text of an empty value element
\* is None and startswith on it raises.
RECURSIVE FilesFrom(_, _)
FilesFrom(files, k) ==
    IF k > Len(files) THEN Value(NoText)
    ELSE IF ~files[k].format.present THEN FilesFrom(files, k + 1)
    ELSE IF files[k].format.text.t = "NoneType" THEN Raised
    ELSE IF StartsWith(files[k].format.text.v, <<"text/plain">>) THEN Value(files[k].about)
    ELSE FilesFrom(files, k + 1)

get_book_link(doc) == FilesFrom(doc.files, 1)

\* The stub get_authors builds for one creator whose agent was found.
Stub(creator) ==
    [id |-> extract_id(creator.agent.about),
     name |-> get_text(creator.name),
     birth_year |-> parse_int(get_text(creator.birthdate)),
     death_year |-> parse_int(get_text(creator.deathdate))]

\* get_authors: None without creators; agent.attrib raises when a creator
\* has no agent.
get_authors(doc) ==
    IF doc.creators = <<>> THEN Value(NoList)
    ELSE IF \E k \in 1..Len(doc.creators) : ~doc.creators[k].agent.present THEN Raised
    ELSE Value(ListOf([k \in 1..Len(doc.creators) |-> Stub(doc.creators[k])]))

\* bookshelf.split(":")[0] != "Browsing"
Kept(bookshelf) == FirstSegment(bookshelf.v, ":") # <<"Browsing">>

\* The values of sequence q that pass Kept, in order.
RECURSIVE Filtered(_)
Filtered(q) ==
    IF q = <<>> THEN <<>>
    ELSE IF Kept(Head(q)) THEN <<Head(q)>> \o Filtered(Tail(q))
    ELSE Filtered(Tail(q))

\* get_bookshelves: None without bookshelf values or when none is kept;
\* split on the text of an empty value element, which is None, raises.
get_bookshelves(doc) ==
    IF doc.bookshelves = <<>> THEN Value(NoList)
    ELSE IF \E k \in 1..Len(doc.bookshelves) : doc.bookshelves[k].t = "NoneType" THEN Raised
    ELSE IF Filtered(doc.bookshelves) = <<>> THEN Value(NoList)
    ELSE Value(ListOf(Filtered(doc.bookshelves)))

\* The dict extract_metadata returns, or the exception that leaves it.
extract_metadata(doc) ==
    IF get_bookshelves(doc).raised \/ get_book_link(doc).raised \/ get_authors(doc).raised
    THEN [pc |-> "raised", op |-> "extract_metadata", arg |-> doc]
    ELSE [pc |-> "returned", op |-> "extract_metadata", arg |-> doc,
          out |-> [gutenberg_id |-> get_book_id(doc),
                   categories |-> get_bookshelves(doc).v,
                   release_date |-> get_text(doc.issued),
                   book_link |-> get_book_link(doc).v,
                   authors |-> get_authors(doc).v,
                   title |-> get_text(doc.title),
                   summary |-> get_text(doc.summary),
                   language |-> get_text(doc.language)]]

\* extract_book_content. A character of a title is a letter or "?"; a
\* text is a sequence of pieces: a start or end marker line written with
\* some title (lit), a stretch of body text, or a stretch of white space.

MaxTitle == 2
MaxText == 4

\* re.IGNORECASE
Fold(c) == IF c = "A" THEN "a" ELSE c
FoldSeq(q) == [k \in 1..Len(q) |-> Fold(q[k])]

\* What stands between "EBOOK" and the three stars: a space, the title, a
\* space.
Region(q) == <<" ">> \o q \o <<" ">>

\* The pattern the characters chars compile to, from character k on: a
\* "?" makes the atom before it optional, a second one makes it lazy, a
\* third is an error (multiple repeat). rep counts the "?" of an atom.
RECURSIVE Compile(_, _, _)
Compile(chars, k, atoms) ==
    IF k > Len(chars) THEN Value(atoms)
    ELSE IF chars[k] # "?" THEN Compile(chars, k + 1, Append(atoms, [c |-> chars[k], rep |-> 0]))
    ELSE IF atoms = <<>> \/ atoms[Len(atoms)].rep = 2 THEN Raised
    ELSE Compile(chars, k + 1, [atoms EXCEPT ![Len(atoms)].rep = @ + 1])

\* "... EBOOK " + title + " \*{3}": the title goes into the pattern as it is.
Pattern(q) == Compile(Region(q), 1, <<>>)

\* The atoms match the whole of s, letters compared without case.
RECURSIVE MatchAtoms(_, _)
MatchAtoms(atoms, s) ==
    IF atoms = <<>> THEN s = <<>>
    ELSE \/ /\ s # <<>>
            /\ Fold(Head(s)) = Fold(Head(atoms).c)
            /\ MatchAtoms(Tail(atoms), Tail(s))
         \/ /\ Head(atoms).rep > 0
            /\ MatchAtoms(Tail(atoms), s)

\* Piece p is a marker line of the given kind that the pattern of title q
\* matches.
MarkerMatches(q, p, kind) ==
    p.k = kind /\ MatchAtoms(Pattern(q).v, Region(p.lit))

\* The (start, end) positions re.search can pair: "(.+)" needs something
\* between the two markers.
Spans(q, text) ==
    {ij \in (1..Len(text)) \X (1..Len(text)) :
        /\ MarkerMatches(q, text[ij[1]], "start")
        /\ MarkerMatches(q, text[ij[2]], "end")
        /\ ij[2] > ij[1] + 1}

\* The leftmost start that has a match, and with the greedy "(.+)" the
\* last end after it.
MatchStart(q, text) ==
    CHOOSE i \in {ij[1] : ij \in Spans(q, text)} : \A ij \in Spans(q, text) : i <= ij[1]

MatchEnd(q, text) ==
    CHOOSE j \in {ij[2] : ij \in Spans(q, text)} : \A ij \in Spans(q, text) : j >= ij[2]

\* str.strip()
RECURSIVE StripLeft(_)
StripLeft(t) ==
    IF t # <<>> /\ Head(t).k = "blank" THEN StripLeft(Tail(t)) ELSE t

RECURSIVE StripRight(_)
StripRight(t) ==
    IF t # <<>> /\ t[Len(t)].k = "blank" THEN StripRight(SubSeq(t, 1, Len(t) - 1)) ELSE t

Strip(t) == StripRight(StripLeft(t))

\* match.group(1).strip()
Content(q, text) ==
    Strip(SubSeq(text, MatchStart(q, text) + 1, MatchEnd(q, text) - 1))

\* extract_book_content(title, text): a title that is None makes the
\* concatenation raise, a pattern that does not compile makes re.search
\* raise.
extract_book_content(title, text) ==
    IF title.t = "NoneType" \/ Pattern(title.v).raised
    THEN [pc |-> "raised", op |-> "extract_book_content",
          arg |-> [title |-> title, text |-> text]]
    ELSE [pc |-> "returned", op |-> "extract_book_content",
          arg |-> [title |-> title, text |-> text],
          out |-> IF Spans(title.v, text) # {} /\ Content(title.v, text) # <<>>
                  THEN Content(title.v, text) ELSE text]

\* The descriptors: one part varies at a time around a descriptor that has
\* every scalar node and no file, creator or bookshelf.
MaxFiles == 2
MaxCreators == 1
MaxShelves == 2

\* A scalar node: absent, empty, or holding a text.
TextNodes(q) == {NoNode, Node(NoText, NoText), Node(Text(q), NoText)}

\* pg:ebook: absent, without rdf:about, or about "ebooks/1", "ebooks/x",
\* "ebooks/".
EbookNodes ==
    {NoNode, Node(NoText, NoText)} \cup
    {Node(NoText, Text(a)) : a \in {<<"ebooks", "/", "1">>, <<"ebooks", "/", "x">>, <<"ebooks", "/">>}}

FileElems ==
    {[format |-> f, about |-> Text(<<"link">>)] :
        f \in TextNodes(<<"text/plain", ";", "charset">>) \cup {Node(Text(<<"text/html">>), NoText)}}

Creators ==
    {[agent |-> a, name |-> n, birthdate |-> b, deathdate |-> NoNode] :
        a \in {NoNode, Node(NoText, NoText), Node(NoText, Text(<<"agents", "/", "7">>))},
        n \in {NoNode, Node(Text(<<"A">>), NoText)},
        b \in {NoNode, Node(Text(<<"1800">>), NoText), Node(Text(<<"x">>), NoText)}}

\* The text of a bookshelf value: None for an empty element.
ShelfTexts ==
    {NoText} \cup
    {Text(q) : q \in {<<"Browsing">>, <<"Browsing", ":", "Fiction">>, <<"Fiction">>,
                      <<"Fiction", ":", "Browsing">>, <<"Browsing", "Fiction">>}}

PlainDoc ==
    [ebook |-> Node(NoText, Text(<<"ebooks", "/", "1">>)),
     title |-> Node(Text(<<"T">>), NoText), summary |-> Node(Text(<<"S">>), NoText),
     language |-> Node(Text(<<"en">>), NoText), issued |-> Node(Text(<<"2001-01-01">>), NoText),
     files |-> <<>>, creators |-> <<>>, bookshelves |-> <<>>]

ScalarDocs ==
    {[PlainDoc EXCEPT !.ebook = e, !.title = t, !.summary = m, !.language = l] :
        e \in EbookNodes, t \in TextNodes(<<"T">>), m \in TextNodes(<<"S">>),
        l \in TextNodes(<<"en">>)}

LinkedDocs ==
    {[PlainDoc EXCEPT !.files = f, !.creators = c] :
        f \in SeqsUpTo(FileElems, MaxFiles), c \in SeqsUpTo(Creators, MaxCreators)}

ShelfDocs ==
    {[PlainDoc EXCEPT !.bookshelves = b] : b \in SeqsUpTo(ShelfTexts, MaxShelves)}

\* The titles: None, or up to MaxTitle characters.
Titles == {NoText} \cup {Text(q) : q \in SeqsUpTo({"a", "?"}, MaxTitle) \ {<<>>}}

\* The title as a text may write it in a marker line: as it is, in capitals,
\* or another title.
Capitals(q) == [k \in 1..Len(q) |-> IF q[k] = "a" THEN "A" ELSE q[k]]

LitsFor(title) == {title.v, Capitals(title.v), <<"a">>}

Pieces(title) ==
    {[k |-> kind, lit |-> l] : kind \in {"start", "end"}, l \in LitsFor(title)} \cup
    {[k |-> kind, lit |-> <<>>] : kind \in {"body", "blank"}}

InitExtract ==
    /\ family = "scalar"
    /\ StoreInit
    /\ callers = NoCallers
    /\ tasks = NoTasks
    /\ sem = NoSem
    /\ run = NoRun
    /\ dl = NoDownload
    /\ \/ \E d \in ScalarDocs \cup LinkedDocs \cup ShelfDocs :
            fn = [pc |-> "called", op |-> "extract_metadata", arg |-> d]
       \/ \E title \in Titles : \E text \in SeqsUpTo(Pieces(title), MaxText) :
            fn = [pc |-> "called", op |-> "extract_book_content",
                  arg |-> [title |-> title, text |-> text]]

ExtractMetadata ==
    /\ fn.pc = "called" /\ fn.op = "extract_metadata"
    /\ fn' = extract_metadata(fn.arg)
    /\ UNCHANGED <<db, pre, last, first, ncalls, family, callers, tasks, sem, run, dl>>

ExtractBookContent ==
    /\ fn.pc = "called" /\ fn.op = "extract_book_content"
    /\ fn' = extract_book_content(fn.arg.title, fn.arg.text)
    /\ UNCHANGED <<db, pre, last, first, ncalls, family, callers, tasks, sem, run, dl>>

NextExtract == ExtractMetadata \/ ExtractBookContent

SpecExtract == InitExtract /\ [][NextExtract]_vars

----------------------------------------------------------------------------
(* Properties of SpecExtract. *)

MetadataCallEnded == fn.op = "extract_metadata" /\ fn.pc # "called"

\* The value does not begin with "Browsing:".
NotPrefixed(bookshelf) == ~StartsWith(bookshelf.v, <<"Browsing", ":">>)

\* The list a dict entry holds, None read as the empty list.
Listed(val) == IF val.t = "list" THEN val.v ELSE <<>>

\* C16 as stated: the categories extract_metadata returns are the bookshelf
\* values that do not begin with "Browsing:", all of them and in document
\* order.
C16_BrowsingPrefixExcluded ==
    (MetadataCallEnded /\ fn.pc = "returned") =>
        Listed(fn.out.categories) = SelectSeq(fn.arg.bookshelves, NotPrefixed)

\* C18 as stated: extract_metadata never raises on a well-formed
\* descriptor, and a node that is absent or empty gives null in its field.
C18_MissingNodesGiveNull ==
    MetadataCallEnded =>
        /\ fn.pc = "returned"
        /\ ~fn.arg.ebook.present => fn.out.gutenberg_id = NoId
        /\ get_text(fn.arg.title) = NoText => fn.out.title = NoText
        /\ get_text(fn.arg.summary) = NoText => fn.out.summary = NoText
        /\ get_text(fn.arg.language) = NoText => fn.out.language = NoText
        /\ fn.arg.bookshelves = <<>> => fn.out.categories = NoList
        /\ fn.arg.creators = <<>> => fn.out.authors = NoList
        /\ fn.arg.files = <<>> => fn.out.book_link = NoText

\* The marker lines of one kind that a text writes with the title itself,
\* in whatever case.
OwnMarkers(title, text, kind) ==
    {k \in 1..Len(text) : text[k].k = kind /\ FoldSeq(text[k].lit) = FoldSeq(title.v)}

\* What stands between the text's start marker and its end marker, when it
\* has one of each for the title and in that order; nothing otherwise.
Enclosed(title, text) ==
    IF /\ Cardinality(OwnMarkers(title, text, "start")) = 1
       /\ Cardinality(OwnMarkers(title, text, "end")) = 1
       /\ \A i \in OwnMarkers(title, text, "start") :
             \A j \in OwnMarkers(title, text, "end") : i < j
    THEN SubSeq(text, (CHOOSE i \in OwnMarkers(title, text, "start") : TRUE) + 1,
                      (CHOOSE j \in OwnMarkers(title, text, "end") : TRUE) - 1)
    ELSE <<>>

\* C17 as stated: with both markers of the title around a span that is not
\* blank the result is that span trimmed, and with a marker missing or a
\* blank span the result is the text.
C17_MarkersStripped ==
    (fn.op = "extract_book_content" /\ fn.pc = "returned") =>
        /\ Strip(Enclosed(fn.arg.title, fn.arg.text)) # <<>> =>
              fn.out = Strip(Enclosed(fn.arg.title, fn.arg.text))
        /\ (\/ OwnMarkers(fn.arg.title, fn.arg.text, "start") = {}
            \/ OwnMarkers(fn.arg.title, fn.arg.text, "end") = {}
            \/ /\ Cardinality(OwnMarkers(fn.arg.title, fn.arg.text, "start")) = 1
               /\ Cardinality(OwnMarkers(fn.arg.title, fn.arg.text, "end")) = 1
               /\ Strip(Enclosed(fn.arg.title, fn.arg.text)) = <<>>) =>
              fn.out = fn.arg.text

====
